---- MODULE Spec2Model ----
(***************************************************************************)
(* A model of video_engine.py: the asset manager (resolve_all with its     *)
(* worker pool, _download_asset, _download_http with its retry loop), the  *)
(* scene renderer (_calculate_duration, get_media_duration, the engine     *)
(* invocation) and the pipeline orchestrator (VideoPipeline.run,           *)
(* _validate_schema, _stitch_and_finalize).                                *)
(*                                                                         *)
(* Seconds are integers (5 stands for 5.0).  The external collaborators    *)
(* (the network, ffprobe, ffmpeg) answer nondeterministically.             *)
(***************************************************************************)
EXTENDS Integers, Sequences, FiniteSets, TLC

\* ------------------------------------------------------------------ bounds
MaxScenes == 2
MaxLayers == 2

\* ------------------------------------------------------- program constants
max_download_threads == 4
max_retries == 3
DefaultDuration == 5

\* --------------------------------------------------------------- job input
NoSource == "<none>"
NoRole == "<none>"
NoTrack == "<none>"
NoPath == "<none>"
NotExited == -1

HttpSources == {"http://a", "http://b"}
LocalSources == {"local.png"}
Sources == HttpSources \cup LocalSources

\* The layers a job's scenes are built from: a main audio layer, an audio
\* layer without role, and a layer without source.
LayerChoices ==
    { [type |-> "audio", source |-> "http://b",  role |-> "main"],
      [type |-> "audio", source |-> "http://a",  role |-> NoRole],
      [type |-> "text",  source |-> NoSource,    role |-> NoRole] }

\* The 'duration' entry of a scene, << >> when the scene has none: absent,
\* negative, zero, positive.
NoDuration == << >>
ExplicitChoices == {NoDuration, << -2 >>, << 0 >>, << 3 >>}

\* What ffprobe may do for a file: print a length, or fail.
ProbeFailed == [ok |-> FALSE, seconds |-> 0]
ProbeOutcomes == {[ok |-> TRUE, seconds |-> 8], ProbeFailed}

SeqsUpTo(S, n) == UNION { [1..k -> S] : k \in 0..n }

\* A scene with a 'layers' key (possibly an empty list), or one without it.
SceneChoices ==
    { [hasLayers |-> TRUE, layers |-> ls, duration |-> d] :
          ls \in SeqsUpTo(LayerChoices, MaxLayers), d \in ExplicitChoices }
    \cup { [hasLayers |-> FALSE, layers |-> << >>, duration |-> NoDuration] }

JobChoices ==
    { [timelineKind |-> "list", timeline |-> tl, background_track |-> bg] :
          tl \in SeqsUpTo(SceneChoices, MaxScenes), bg \in {NoTrack, "http://b", "local.png"} }
    \cup { [timelineKind |-> k, timeline |-> << >>, background_track |-> NoTrack] :
          k \in {"missing", "notlist"} }

VARIABLES
    data,        \* the loaded job
    pc,          \* position of the orchestrating thread in VideoPipeline.run
    exitCode,    \* the process exit status, NotExited while it runs
    workspace,   \* whether the temporary directory exists
    dlFile,      \* state of the file at an http source's destination path
    cache,       \* AssetManager.cache: source -> local path
    order,       \* future_to_url in iteration order
    next,        \* index in order of the future the orchestrator waits for
    task,        \* per source: the state of its _download_asset call
    dispatched,  \* per source: how often it was handed to _download_asset
    fetched,     \* per source: how often its retry loop went to the network
    sleeps,      \* per source: the seconds slept between its attempts, in order
    scene,       \* index (0-based) of the scene being rendered
    durations,   \* the duration computed for each rendered scene
    probes,      \* per scene: the layer indices handed to get_media_duration
    engineCalls, \* per scene: the number of engine invocations
    cmds,        \* the engine invocations made for scenes, in order
    chunks,      \* the chunk paths collected by run
    chunkFiles,  \* the chunk files present in the workspace
    stitchCalls, \* the number of invocations of the final concatenation
    concatList,  \* the contents of concat_list.txt
    listFile,    \* whether concat_list.txt exists in the working directory
    finalOutput  \* whether output/final.mp4 was written

vars == << data, pc, exitCode, workspace, dlFile, cache, order, next, task,
           dispatched, fetched, sleeps, scene, durations, probes, engineCalls,
           cmds, chunks, chunkFiles, stitchCalls, concatList, listFile, finalOutput >>

\* ------------------------------------------------------------------ helpers
Range(f) == { f[k] : k \in DOMAIN f }

Perms(S) == { f \in [1..Cardinality(S) -> S] : Range(f) = S }

\* Python truthiness of a source string / of a number.
HasSource(layer) == layer.source # NoSource
Truthy(x) == x # NoDuration /\ x[1] # 0

\* dl_{hash(url)}{ext} in the workspace: one destination per URL.
DlPath(url) ==
    CASE url = "http://a" -> "tmp/dl_a.tmp"
      [] url = "http://b" -> "tmp/dl_b.tmp"

\* The path _download_asset returns for a source it resolves.
PathOf(src) == IF src \in HttpSources THEN DlPath(src) ELSE src

\* chunk_{i:03d}.mp4 in the workspace.
ChunkName(i) == << "chunk", i >>

Timeline == data.timeline
NumScenes == Len(Timeline)

\* A collection that looks at the first scene only.
CollectUrlsFirstScene(timeline, c) ==
    { src \in Sources :
        /\ timeline # << >>
        /\ \E j \in 1..Len(timeline[1].layers) :
                /\ HasSource(timeline[1].layers[j])
                /\ timeline[1].layers[j].source = src
        /\ c[src] = NoPath }

\* resolve_all, lines 65-70: the truthy sources of the timeline's layers that
\* the cache does not hold yet (a set: each distinct source once).
CollectUrls(timeline, c) ==
    { src \in Sources :
        /\ \E i \in 1..Len(timeline) :
             \E j \in 1..Len(timeline[i].layers) :
                /\ HasSource(timeline[i].layers[j])
                /\ timeline[i].layers[j].source = src
        /\ c[src] = NoPath }

Finished(u) == task[u].st \in {"ok", "failed"}
Running == { u \in Sources : task[u].st = "running" }

\* Leaving the TemporaryDirectory block removes the workspace and all in it.
Cleanup ==
    /\ workspace' = FALSE
    /\ dlFile' = [u \in HttpSources |-> "absent"]
    /\ chunkFiles' = {}

\* --------------------------------------------------------------------- Init
Init ==
    /\ data \in JobChoices
    /\ pc = "validate"
    /\ exitCode = NotExited
    /\ workspace = FALSE
    /\ dlFile = [u \in HttpSources |-> "absent"]
    /\ cache = [u \in Sources |-> NoPath]
    /\ order = << >>
    /\ next = 1
    /\ task = [u \in Sources |-> [st |-> "none", attempt |-> 0]]
    /\ dispatched = [u \in Sources |-> 0]
    /\ fetched = [u \in Sources |-> 0]
    /\ sleeps = [u \in Sources |-> << >>]
    /\ scene = 0
    /\ durations = << >>
    /\ probes = << >>
    /\ engineCalls = [i \in 0..(MaxScenes - 1) |-> 0]
    /\ cmds = << >>
    /\ chunks = << >>
    /\ chunkFiles = {}
    /\ stitchCalls = 0
    /\ concatList = << >>
    /\ listFile = FALSE
    /\ finalOutput = FALSE

assetVars == << dlFile, cache, order, next, task, dispatched, fetched, sleeps >>
renderVars == << scene, durations, probes, engineCalls, cmds, chunks, chunkFiles >>
stitchVars == << stitchCalls, concatList, listFile, finalOutput >>

\* ------------------------------------------------------- _validate_schema
\* Lines 369-378: the timeline is a non-empty list and every scene has a
\* 'layers' key.  Nothing else is looked at.
SchemaValid(d) ==
    /\ d.timelineKind = "list"
    /\ d.timeline # << >>
    /\ \A i \in 1..Len(d.timeline) : d.timeline[i].hasLayers

\* run, line 327: a ValueError of _validate_schema is caught nowhere; the
\* interpreter ends with exit status 1, before the workspace exists.
Validate ==
    /\ pc = "validate"
    /\ IF SchemaValid(data)
         THEN pc' = "setup" /\ exitCode' = exitCode
         ELSE pc' = "failed_validation" /\ exitCode' = 1
    /\ UNCHANGED << data, workspace, assetVars, renderVars, stitchVars >>

\* run, lines 334-338: the temporary directory and the asset manager.
CreateWorkspace ==
    /\ pc = "setup"
    /\ workspace' = TRUE
    /\ pc' = "resolve"
    /\ UNCHANGED << data, exitCode, assetVars, renderVars, stitchVars >>

\* ------------------------------------------------------------ AssetManager
\* resolve_all, lines 65-74: collect the distinct uncached sources and submit
\* one _download_asset task per source.  future_to_url is iterated in the
\* order the set of sources happened to be iterated in.
ResolveSubmit ==
    /\ pc = "resolve"
    /\ LET urls == CollectUrls(Timeline, cache) IN
         /\ \E o \in Perms(urls) : order' = o
         /\ task' = [u \in Sources |->
                       IF u \in urls THEN [st |-> "queued", attempt |-> 0]
                                     ELSE task[u]]
         /\ dispatched' = [u \in Sources |->
                       IF u \in urls THEN dispatched[u] + 1 ELSE dispatched[u]]
    /\ next' = 1
    /\ pc' = "resolving"
    /\ UNCHANGED << data, exitCode, workspace, dlFile, cache, fetched, sleeps,
                    renderVars, stitchVars >>

\* What one download attempt may do: succeed, fail with URLError before the
\* destination file is opened, or time out while the body is copied.
AttemptOutcomes == {"ok", "URLError", "TimeoutError"}

\* The destination file after an attempt (line 125 opens it with 'wb' once
\* urlopen has answered; a failure of urlopen leaves it as it was).
FileAfter(before, outcome) ==
    CASE outcome = "ok" -> "complete"
      [] outcome = "TimeoutError" -> "partial"
      [] outcome = "URLError" -> before

\* A retry loop that gives up one attempt early.
AfterAttemptEarly(a, o) ==
    IF o = "ok" THEN [st |-> "ok", attempt |-> a + 1]
    ELSE IF a = max_retries - 2 THEN [st |-> "failed", attempt |-> a + 1]
    ELSE [st |-> "running", attempt |-> a + 1]

\* _download_http, lines 122-132: the task after attempt number a (0-based)
\* ended with outcome o.
AfterAttempt(a, o) ==
    IF o = "ok" THEN [st |-> "ok", attempt |-> a + 1]
    ELSE IF a = max_retries - 1 THEN [st |-> "failed", attempt |-> a + 1]
    ELSE [st |-> "running", attempt |-> a + 1]

\* A back-off that also sleeps after the last attempt failed.
SleepsAfterAlways(slept, a, o) ==
    IF o # "ok" THEN Append(slept, 2 ^ a) ELSE slept

\* _download_http, lines 128-132: after failed attempt number a (0-based) the
\* loop sleeps 2 ** a seconds, unless it was the last attempt, whose error
\* is re-raised at once.
SleepsAfter(slept, a, o) ==
    IF o # "ok" /\ a # max_retries - 1 THEN Append(slept, 2 ^ a) ELSE slept

\* A worker that stores its own result in the cache when it succeeds.
DownloadStepWritesCache(u) ==
    /\ task[u].st \in {"queued", "running"}
    /\ task[u].st = "queued" => Cardinality(Running) < max_download_threads
    /\ IF u \in HttpSources
         THEN IF task[u].st = "queued" /\ dlFile[u] # "absent"
                THEN /\ task' = [task EXCEPT ![u].st = "ok"]
                     /\ UNCHANGED << dlFile, fetched, sleeps >>
                ELSE \E o \in AttemptOutcomes :
                     /\ task' = [task EXCEPT ![u] = AfterAttempt(task[u].attempt, o)]
                     /\ dlFile' = [dlFile EXCEPT ![u] = FileAfter(dlFile[u], o)]
                     /\ fetched' = [fetched EXCEPT ![u] =
                                      IF task[u].attempt = 0 THEN @ + 1 ELSE @]
                     /\ sleeps' = [sleeps EXCEPT ![u] =
                                      SleepsAfter(@, task[u].attempt, o)]
         ELSE /\ \E exists \in BOOLEAN :
                   task' = [task EXCEPT ![u].st = IF exists THEN "ok" ELSE "failed"]
              /\ UNCHANGED << dlFile, fetched, sleeps >>
    /\ cache' = IF task'[u].st = "ok" THEN [cache EXCEPT ![u] = PathOf(u)] ELSE cache
    /\ UNCHANGED << data, pc, exitCode, workspace, order, next,
                    dispatched, renderVars, stitchVars >>

\* One step of a _download_asset call (lines 87-99) for source u: a local
\* path is checked for existence; an http source returns its destination at
\* once when a file is already there (line 119), and otherwise makes its
\* next download attempt.
DownloadStep(u) ==
    /\ task[u].st \in {"queued", "running"}
    /\ task[u].st = "queued" => Cardinality(Running) < max_download_threads
    /\ IF u \in HttpSources
         THEN IF task[u].st = "queued" /\ dlFile[u] # "absent"
                THEN /\ task' = [task EXCEPT ![u].st = "ok"]
                     /\ UNCHANGED << dlFile, fetched, sleeps >>
                ELSE \E o \in AttemptOutcomes :
                     /\ task' = [task EXCEPT ![u] = AfterAttempt(task[u].attempt, o)]
                     /\ dlFile' = [dlFile EXCEPT ![u] = FileAfter(dlFile[u], o)]
                     /\ fetched' = [fetched EXCEPT ![u] =
                                      IF task[u].attempt = 0 THEN @ + 1 ELSE @]
                     /\ sleeps' = [sleeps EXCEPT ![u] =
                                      SleepsAfter(@, task[u].attempt, o)]
         ELSE /\ \E exists \in BOOLEAN :
                   task' = [task EXCEPT ![u].st = IF exists THEN "ok" ELSE "failed"]
              /\ UNCHANGED << dlFile, fetched, sleeps >>
    /\ UNCHANGED << data, pc, exitCode, workspace, cache, order, next,
                    dispatched, renderVars, stitchVars >>

\* A consumer that logs a failed future and goes on to the next.
ConsumeSwallow ==
    /\ pc = "resolving"
    /\ next <= Len(order)
    /\ Finished(order[next])
    /\ cache' = IF task[order[next]].st = "ok"
                  THEN [cache EXCEPT ![order[next]] = PathOf(order[next])]
                  ELSE cache
    /\ next' = next + 1
    /\ UNCHANGED << data, pc, exitCode, workspace, dlFile, order, task,
                    dispatched, fetched, sleeps, renderVars, stitchVars >>

\* resolve_all, lines 75-83: the orchestrator waits for the next future in
\* order; a result is written to the cache, an exception ends the loop.
Consume ==
    /\ pc = "resolving"
    /\ next <= Len(order)
    /\ Finished(order[next])
    /\ IF task[order[next]].st = "ok"
         THEN /\ cache' = [cache EXCEPT ![order[next]] = PathOf(order[next])]
              /\ next' = next + 1
              /\ pc' = pc
         ELSE /\ pc' = "draining"
              /\ UNCHANGED << cache, next >>
    /\ UNCHANGED << data, exitCode, workspace, dlFile, order, task,
                    dispatched, fetched, sleeps, renderVars, stitchVars >>

\* Lines 73 and 349-351: the executor's block is left only when every
\* submitted task has ended; the RuntimeError then reaches run, which exits
\* with status 1 through the TemporaryDirectory block.
ResolveFail ==
    /\ pc = "draining"
    /\ \A k \in 1..Len(order) : Finished(order[k])
    /\ pc' = "failed_resolve"
    /\ exitCode' = 1
    /\ Cleanup
    /\ UNCHANGED << data, cache, order, next, task, dispatched, fetched, sleeps,
                    scene, durations, probes, engineCalls, cmds, chunks, stitchVars >>

\* A background check that does not consult the cache.
NeedsBackgroundDownloadAlways(bg, c) == bg # NoTrack

\* run, lines 344-347: a background track whose source the cache lacks.
NeedsBackgroundDownload(bg, c) == bg # NoTrack /\ c[bg] = NoPath

\* run, lines 344-348: after resolve_all returned, the background track's
\* source is downloaded by the orchestrator itself unless the cache has it.
ResolveReturn ==
    /\ pc = "resolving"
    /\ next > Len(order)
    /\ LET bg == data.background_track IN
         IF NeedsBackgroundDownload(bg, cache)
           THEN /\ task' = [task EXCEPT ![bg] = [st |-> "queued", attempt |-> 0]]
                /\ dispatched' = [dispatched EXCEPT ![bg] = @ + 1]
                /\ pc' = "background"
           ELSE /\ pc' = "render"
                /\ UNCHANGED << task, dispatched >>
    /\ UNCHANGED << data, exitCode, workspace, dlFile, cache, order, next,
                    fetched, sleeps, renderVars, stitchVars >>

\* run, lines 348-351: the background download's result.
BackgroundDone ==
    /\ pc = "background"
    /\ Finished(data.background_track)
    /\ IF task[data.background_track].st = "ok"
         THEN /\ cache' = [cache EXCEPT ![data.background_track] =
                              PathOf(data.background_track)]
              /\ pc' = "render"
              /\ UNCHANGED << exitCode, workspace, dlFile, chunkFiles >>
         ELSE /\ pc' = "failed_resolve"
              /\ exitCode' = 1
              /\ Cleanup
              /\ cache' = cache
    /\ UNCHANGED << data, order, next, task, dispatched, fetched, sleeps,
                    scene, durations, probes, engineCalls, cmds, chunks, stitchVars >>

\* ----------------------------------------------------------- SceneRenderer
\* A selection that falls back to the first audio layer of any role.
MainAudioAnyRole(layers) ==
    LET mains == { j \in 1..Len(layers) :
                     layers[j].type = "audio" /\ layers[j].role = "main" }
        audios == { j \in 1..Len(layers) : layers[j].type = "audio" }
        pick == IF mains # {} THEN mains ELSE audios
    IN IF pick = {} THEN 0
       ELSE CHOOSE j \in pick : \A k \in pick : j <= k

\* A selection that takes the last main audio layer.
MainAudioLast(layers) ==
    LET mains == { j \in 1..Len(layers) :
                     layers[j].type = "audio" /\ layers[j].role = "main" }
    IN IF mains = {} THEN 0
       ELSE CHOOSE j \in mains : \A k \in mains : j >= k

\* _calculate_duration, line 283: the first audio layer with role "main"
\* (its 1-based position; 0 when there is none).
MainAudio(layers) ==
    LET mains == { j \in 1..Len(layers) :
                     layers[j].type = "audio" /\ layers[j].role = "main" }
    IN IF mains = {} THEN 0
       ELSE CHOOSE j \in mains : \A k \in mains : j <= k

\* A probe that hands back whatever was parsed, also when it failed.
get_media_duration_raw(path, outcome) == outcome.seconds

\* get_media_duration, lines 43-54: what ffprobe printed, or 5.0 when the
\* probe failed in any way.
get_media_duration(path, outcome) ==
    IF outcome.ok THEN outcome.seconds ELSE DefaultDuration

\* Whether _calculate_duration reaches line 287 for scene s.
NeedsProbe(s) == ~Truthy(s.duration) /\ MainAudio(s.layers) # 0

\* _calculate_duration, lines 278-289.
CalculateDuration(s, c, outcome) ==
    IF Truthy(s.duration) THEN s.duration[1]
    ELSE IF MainAudio(s.layers) # 0
      THEN get_media_duration(c[s.layers[MainAudio(s.layers)].source], outcome)
    ELSE DefaultDuration

\* render, lines 164-170: a scene without layers raises ValueError, which
\* run does not catch (it catches CalledProcessError only): the interpreter
\* ends with status 1 through the TemporaryDirectory block.  Otherwise the
\* duration is computed, probing the main audio layer when there is one.
RenderBegin ==
    /\ pc = "render"
    /\ LET s == Timeline[scene + 1] IN
         IF s.layers = << >>
           THEN /\ pc' = "crashed_render"
                /\ exitCode' = 1
                /\ Cleanup
                /\ UNCHANGED << durations, probes >>
           ELSE /\ \E o \in IF NeedsProbe(s) THEN ProbeOutcomes ELSE {ProbeFailed} :
                     /\ durations' = Append(durations, CalculateDuration(s, cache, o))
                     /\ probes' = Append(probes,
                           IF NeedsProbe(s)
                             THEN << [layer |-> MainAudio(s.layers), outcome |-> o] >>
                             ELSE << >>)
                /\ pc' = "engine"
                /\ UNCHANGED << exitCode, workspace, dlFile, chunkFiles >>
    /\ UNCHANGED << data, cache, order, next, task, dispatched, fetched, sleeps,
                    scene, engineCalls, cmds, chunks, stitchVars >>

\* A collection that puts the newest chunk first.
CollectChunkPrepend(cs, i) == << ChunkName(i) >> \o cs

\* ------------------------------------------------------------- FilterGraph
\* Labels are pairs of a prefix and a number: << "v_stack", 2 >> is v_stack_2,
\* << "v", 0 >> is v_0, << "a_out", 0 >> is a_out; the engine's input stream
\* "k:v" is << "in:v", k >> and "k:a" is << "in:a", k >>.
InputStream(k, kind) == << IF kind = "v" THEN "in:v" ELSE "in:a", k >>
IsInputStream(label) == label[1] \in {"in:v", "in:a"}

NoSeconds == << >>

\* A node of the graph: the layer it was built for (0: none), its input
\* labels, its filter chain, the duration the chain trims to (if any), the
\* declared number of mix inputs (0: not a mix) and its output labels.
Node(layer, inputs, op, dur, n, outputs) ==
    [layer |-> layer, inputs |-> inputs, op |-> op, dur |-> dur, n |-> n,
     outputs |-> outputs]

\* FilterGraph.__init__, lines 138-140.
NewFilterGraph == [chains |-> << >>, node_counter |-> 0]

\* FilterGraph.add_node, lines 142-145.
add_node(fg, node) == [fg EXCEPT !.chains = Append(@, node)]

\* A label generator that does not advance the counter.
get_next_label_stuck(fg, prefix) ==
    [fg |-> fg, label |-> << prefix, fg.node_counter + 1 >>]

\* FilterGraph.get_next_label, lines 147-149: the counter is advanced and the
\* label carries its new value.
get_next_label(fg, prefix) ==
    [fg |-> [fg EXCEPT !.node_counter = @ + 1],
     label |-> << prefix, fg.node_counter + 1 >>]

\* ------------------------------------------------- SceneRenderer.render
\* An index assignment that forgets the canvas.
InputIndexNoCanvas(unique_paths) == Len(unique_paths)

\* render, line 184: the index of a path seen for the first time.
InputIndex(unique_paths) == Len(unique_paths) + 1

\* render, lines 175-185: the distinct resolved paths of the layers with a
\* source, in order of first appearance, and the input index of each.
RECURSIVE SetupInputs(_, _, _, _)
SetupInputs(layers, c, i, st) ==
    IF i > Len(layers) THEN st
    ELSE IF ~HasSource(layers[i]) THEN SetupInputs(layers, c, i + 1, st)
    ELSE LET path == c[layers[i].source] IN
         IF path \in DOMAIN st.path_to_input_idx
           THEN SetupInputs(layers, c, i + 1, st)
           ELSE SetupInputs(layers, c, i + 1,
                  [unique_paths |-> Append(st.unique_paths, path),
                   path_to_input_idx |->
                       (path :> InputIndex(st.unique_paths)) @@ st.path_to_input_idx])

NoInputs == [unique_paths |-> << >>, path_to_input_idx |-> << >>]

\* render, lines 173 and 187-188: the engine's inputs in -i order, the
\* synthetic canvas first.
CanvasInput == "lavfi:color"
InputArgs(unique_paths) == << CanvasInput >> \o unique_paths

\* An overlay that always composites onto the bare canvas.
OverlayInputsOnCanvas(curr_v, proc_v) == << << "v", 0 >>, proc_v >>

\* render, line 226: the overlay's base is the current frame.
OverlayInputs(curr_v, proc_v) == << curr_v, proc_v >>

\* render, lines 200-227: a video or image layer.
VisualLayer(st, i, layer, c, duration, idx) ==
    LET inp_idx == idx[c[layer.source]]
        g1 == get_next_label(st.fg, "v_proc")
        fg1 == add_node(g1.fg, Node(i, << InputStream(inp_idx, "v") >>,
                                    "scale,trim", << duration >>, 0, << g1.label >>))
        g2 == get_next_label(fg1, "v_stack")
        fg2 == add_node(g2.fg, Node(i, OverlayInputs(st.curr_v, g1.label),
                                    "overlay", NoSeconds, 0, << g2.label >>))
    IN [st EXCEPT !.fg = fg2, !.curr_v = g2.label]

\* render, lines 229-233: a text layer.
TextLayer(st, i) ==
    LET g == get_next_label(st.fg, "v_text")
        fg1 == add_node(g.fg, Node(i, << st.curr_v >>, "drawtext", NoSeconds, 0,
                                   << g.label >>))
    IN [st EXCEPT !.fg = fg1, !.curr_v = g.label]

\* render, lines 235-248: an audio layer.
AudioLayer(st, i, layer, c, duration, idx) ==
    LET inp_idx == idx[c[layer.source]]
        g == get_next_label(st.fg, "a_pad")
        fg1 == add_node(g.fg, Node(i, << InputStream(inp_idx, "a") >>,
                                   "apad,atrim", << duration >>, 0, << g.label >>))
    IN [st EXCEPT !.fg = fg1, !.audio_mix_pads = Append(@, g.label)]

\* render, lines 197-248: the layers in declared order.
RECURSIVE BuildLayers(_, _, _, _, _, _)
BuildLayers(layers, c, duration, idx, i, st) ==
    IF i > Len(layers) THEN st
    ELSE BuildLayers(layers, c, duration, idx, i + 1,
           CASE layers[i].type \in {"video", "image"} ->
                    VisualLayer(st, i, layers[i], c, duration, idx)
             [] layers[i].type = "text" -> TextLayer(st, i)
             [] layers[i].type = "audio" ->
                    AudioLayer(st, i, layers[i], c, duration, idx)
             [] OTHER -> st)

FinalAudio == << "a_out", 0 >>

\* A mix that takes its inputs in reverse order.
MixNodeReversed(pads) ==
    Node(0, [k \in 1..Len(pads) |-> pads[Len(pads) + 1 - k]], "amix", NoSeconds,
         Len(pads), << FinalAudio >>)

\* render, line 253: amix=inputs=n:duration=first:dropout_transition=0.
MixNode(pads) == Node(0, pads, "amix", NoSeconds, Len(pads), << FinalAudio >>)

\* A silent source of the default length.
SilentNodeDefault(duration) ==
    Node(0, << >>, "anullsrc", << DefaultDuration >>, 0, << FinalAudio >>)

\* render, line 255: anullsrc of the scene's duration.
SilentNode(duration) ==
    Node(0, << >>, "anullsrc", << duration >>, 0, << FinalAudio >>)

\* render, lines 172-261: the engine invocation compiled for a scene.
Compile(layers, c, duration) ==
    LET ins == SetupInputs(layers, c, 1, NoInputs)
        fg0 == add_node(NewFilterGraph,
                        Node(0, << InputStream(0, "v") >>, "null", NoSeconds, 0,
                             << << "v", 0 >> >>))
        st == BuildLayers(layers, c, duration, ins.path_to_input_idx, 1,
                          [fg |-> fg0, curr_v |-> << "v", 0 >>,
                           audio_mix_pads |-> << >>])
        fg == add_node(st.fg, IF st.audio_mix_pads # << >>
                                THEN MixNode(st.audio_mix_pads)
                                ELSE SilentNode(duration))
    IN [canvas |-> duration,
        inputs |-> InputArgs(ins.unique_paths),
        nodes |-> fg.chains,
        mapV |-> st.curr_v,
        mapA |-> FinalAudio]

\* run, lines 358-362: the chunk of scene i is appended to the list.
CollectChunk(cs, i) == Append(cs, ChunkName(i))

\* render, lines 172-276, and run, lines 362-364: the engine is invoked once;
\* on success the chunk is collected and the loop goes on, on failure run
\* exits with status 1.
RenderEngine ==
    /\ pc = "engine"
    /\ engineCalls' = [engineCalls EXCEPT ![scene] = @ + 1]
    /\ cmds' = Append(cmds, Compile(Timeline[scene + 1].layers, cache,
                                    durations[scene + 1]))
    /\ \E e \in {"ok", "fail"} :
         IF e = "ok"
           THEN /\ chunkFiles' = chunkFiles \cup {ChunkName(scene)}
                /\ chunks' = CollectChunk(chunks, scene)
                /\ scene' = scene + 1
                /\ pc' = IF scene + 1 < NumScenes THEN "render" ELSE "stitch"
                /\ UNCHANGED << exitCode, workspace, dlFile >>
           ELSE /\ pc' = "failed_render"
                /\ exitCode' = 1
                /\ Cleanup
                /\ UNCHANGED << chunks, scene >>
    /\ UNCHANGED << data, cache, order, next, task, dispatched, fetched, sleeps,
                    durations, probes, stitchVars >>

\* ------------------------------------------------------ _stitch_and_finalize
\* Lines 380-406: the chunk list is written to concat_list.txt in the
\* working directory and the engine concatenates it into the final output.
Stitch ==
    /\ pc = "stitch"
    /\ concatList' = chunks
    /\ listFile' = TRUE
    /\ stitchCalls' = stitchCalls + 1
    /\ \E e \in {"ok", "fail"} :
         IF e = "ok"
           THEN /\ finalOutput' = TRUE
                /\ pc' = "done"
                /\ exitCode' = 0
           ELSE /\ finalOutput' = finalOutput
                /\ pc' = "failed_stitch"
                /\ exitCode' = 1
    /\ Cleanup
    /\ UNCHANGED << data, cache, order, next, task, dispatched, fetched, sleeps,
                    scene, durations, probes, engineCalls, cmds, chunks >>

\* -------------------------------------------------------------------- Spec
Next ==
    \/ Validate
    \/ CreateWorkspace
    \/ ResolveSubmit
    \/ \E u \in Sources : DownloadStep(u)
    \/ Consume
    \/ ResolveFail
    \/ ResolveReturn
    \/ BackgroundDone
    \/ RenderBegin
    \/ RenderEngine
    \/ Stitch

Spec == Init /\ [][Next]_vars

\* ----------------------------------------------------------- ManagerSpec
\* One AssetManager whose resolve_all is called more than once by the same
\* caller: the temporary directory and the cache live on between the calls,
\* and a RuntimeError of one call is caught by the caller, who may call again.
MaxCalls == 2

ManagerJobChoices ==
    { j \in JobChoices :
         /\ j.timelineKind = "list"
         /\ j.timeline # << >>
         /\ j.background_track = NoTrack
         /\ \A k \in 1..Len(j.timeline) :
               j.timeline[k].hasLayers /\ j.timeline[k].duration = NoDuration }

\* AssetManager.__init__, lines 59-61: an empty cache in an existing directory.
ManagerInit ==
    /\ data \in ManagerJobChoices
    /\ pc = "idle"
    /\ exitCode = NotExited
    /\ workspace = TRUE
    /\ dlFile = [u \in HttpSources |-> "absent"]
    /\ cache = [u \in Sources |-> NoPath]
    /\ order = << >>
    /\ next = 1
    /\ task = [u \in Sources |-> [st |-> "none", attempt |-> 0]]
    /\ dispatched = [u \in Sources |-> 0]
    /\ fetched = [u \in Sources |-> 0]
    /\ sleeps = [u \in Sources |-> << >>]
    /\ scene = 0
    /\ durations = << >>
    /\ probes = << >>
    /\ engineCalls = [i \in 0..(MaxScenes - 1) |-> 0]
    /\ cmds = << >>
    /\ chunks = << >>
    /\ chunkFiles = {}
    /\ stitchCalls = 0
    /\ concatList = << >>
    /\ listFile = FALSE
    /\ finalOutput = FALSE

\* The caller enters resolve_all (line 63) with the timeline.
ManagerCall ==
    /\ pc = "idle"
    /\ \A u \in Sources : dispatched[u] < MaxCalls
    /\ pc' = "resolve"
    /\ UNCHANGED << data, exitCode, workspace, assetVars, renderVars, stitchVars >>

\* resolve_all, lines 73 and 81-83: the RuntimeError leaves the executor's
\* block once every submitted task has ended and reaches the caller; the
\* directory and the files in it stay as the tasks left them.
ManagerRaise ==
    /\ pc = "draining"
    /\ \A k \in 1..Len(order) : Finished(order[k])
    /\ pc' = "idle"
    /\ UNCHANGED << data, exitCode, workspace, assetVars, renderVars, stitchVars >>

\* resolve_all, line 85: every future was consumed and the cache is returned.
ManagerReturn ==
    /\ pc = "resolving"
    /\ next > Len(order)
    /\ pc' = "idle"
    /\ UNCHANGED << data, exitCode, workspace, assetVars, renderVars, stitchVars >>

ManagerNext ==
    \/ ManagerCall
    \/ ResolveSubmit
    \/ \E u \in Sources : DownloadStep(u)
    \/ Consume
    \/ ManagerRaise
    \/ ManagerReturn

ManagerSpec == ManagerInit /\ [][ManagerNext]_vars

\* ------------------------------------------------------------- SceneSpec
\* One scene handed to a SceneRenderer after a successful resolution: the
\* layers are drawn from all four kinds, with sources shared between layers
\* and main audio layers of different sources.
MaxSceneLayers == 3

SceneLayerChoices ==
    { [type |-> "video", source |-> "http://a",  role |-> NoRole],
      [type |-> "image", source |-> "local.png", role |-> NoRole],
      [type |-> "text",  source |-> NoSource,    role |-> NoRole],
      [type |-> "audio", source |-> "http://b",  role |-> "main"],
      [type |-> "audio", source |-> "http://a",  role |-> "main"],
      [type |-> "audio", source |-> "http://b",  role |-> NoRole] }

SceneJobChoices ==
    { [timelineKind |-> "list",
       timeline |-> << [hasLayers |-> TRUE, layers |-> ls, duration |-> d] >>,
       background_track |-> NoTrack] :
          ls \in SeqsUpTo(SceneLayerChoices, MaxSceneLayers), d \in ExplicitChoices }

SceneInit ==
    /\ data \in SceneJobChoices
    /\ pc = "render"
    /\ exitCode = NotExited
    /\ workspace = TRUE
    /\ LET urls == CollectUrls(data.timeline, [u \in Sources |-> NoPath]) IN
         /\ dlFile = [u \in HttpSources |->
                        IF u \in urls THEN "complete" ELSE "absent"]
         /\ cache = [u \in Sources |-> IF u \in urls THEN PathOf(u) ELSE NoPath]
         /\ order = CHOOSE o \in Perms(urls) : TRUE
         /\ next = Cardinality(urls) + 1
         /\ task = [u \in Sources |->
                        IF u \in urls THEN [st |-> "ok", attempt |-> 1]
                                      ELSE [st |-> "none", attempt |-> 0]]
         /\ dispatched = [u \in Sources |-> IF u \in urls THEN 1 ELSE 0]
         /\ fetched = [u \in Sources |->
                        IF u \in urls \cap HttpSources THEN 1 ELSE 0]
    /\ sleeps = [u \in Sources |-> << >>]
    /\ scene = 0
    /\ durations = << >>
    /\ probes = << >>
    /\ engineCalls = [i \in 0..(MaxScenes - 1) |-> 0]
    /\ cmds = << >>
    /\ chunks = << >>
    /\ chunkFiles = {}
    /\ stitchCalls = 0
    /\ concatList = << >>
    /\ listFile = FALSE
    /\ finalOutput = FALSE

SceneNext ==
    \/ RenderBegin
    \/ RenderEngine
    \/ Stitch

SceneSpec == SceneInit /\ [][SceneNext]_vars

\* ================================================================== claims
RenderingStarted ==
    pc \in {"render", "engine", "stitch", "done",
            "failed_render", "crashed_render", "failed_stitch"}

SceneIndices == 0..(MaxScenes - 1)

\* C1: in a run without failure over N scenes, the engine renders each scene
\* once, scene i before scene i+1, the chunks collected are chunk 0, chunk 1,
\* ... chunk N-1 in that order, and the list handed to the concatenation is
\* exactly that list.
C1_ChunksInTimelineOrder ==
    /\ \A k \in 1..Len(chunks) : chunks[k] = ChunkName(k - 1)
    /\ \A i \in SceneIndices :
         engineCalls[i] > 0 =>
            \A j \in 0..(i - 1) : \E k \in 1..Len(chunks) : chunks[k] = ChunkName(j)
    /\ stitchCalls > 0 =>
         /\ Len(concatList) = NumScenes
         /\ \A k \in 1..NumScenes : concatList[k] = ChunkName(k - 1)
    /\ pc = "done" =>
         /\ Len(chunks) = NumScenes
         /\ \A i \in 0..(NumScenes - 1) : engineCalls[i] = 1

C1_Witness ==
    /\ pc = "done"
    /\ NumScenes >= 2
    /\ Len(concatList) = NumScenes

\* C2: within a run every source is handed to _download_asset at most once
\* and its retry loop goes to the network at most once, however many layers,
\* scenes or the background track name it; a cached source always maps to
\* the one path of that source.
C2_ResolvedAtMostOnce ==
    \A u \in Sources :
        /\ dispatched[u] <= 1
        /\ fetched[u] <= 1
        /\ cache[u] # NoPath => cache[u] = PathOf(u) /\ dispatched[u] = 1

LayersWithSource(i, src) ==
    { j \in 1..Len(Timeline[i].layers) : Timeline[i].layers[j].source = src }

C2_Witness ==
    /\ pc = "done"
    /\ NumScenes >= 2
    /\ data.background_track = "http://b"
    /\ \A i \in 1..NumScenes : LayersWithSource(i, "http://b") # {}
    /\ Cardinality(LayersWithSource(1, "http://b")) >= 2
    /\ dispatched["http://b"] = 1
    /\ fetched["http://b"] = 1

\* C3: two failed download attempts do not fail a source: a download fails
\* only after max_retries failed attempts, so a source whose third attempt
\* succeeds is resolved, its path is cached when its result is consumed, and
\* resolution reports an error only when some task did fail.
C3_ThirdAttemptResolves ==
    /\ \A u \in HttpSources :
         /\ task[u].st = "failed" => task[u].attempt = max_retries
         /\ task[u].st = "ok" /\ workspace => dlFile[u] = "complete"
         /\ task[u].st = "ok" /\ RenderingStarted => cache[u] = DlPath(u)
    /\ pc \in {"draining", "failed_resolve"} => \E u \in Sources : task[u].st = "failed"

C3_Witness ==
    /\ pc = "engine"
    /\ \E u \in HttpSources :
         /\ task[u] = [st |-> "ok", attempt |-> 3]
         /\ cache[u] = DlPath(u)
    /\ exitCode = NotExited

\* C4: once a source has failed (every download attempt, or its existence
\* check), no scene is rendered, no chunk exists, the concatenation is never
\* invoked, no final output is written, and the run can only end with a
\* non-zero status and the workspace removed.
C4_ResolutionFailureIsFatal ==
    (\E u \in Sources : task[u].st = "failed") =>
        /\ pc \in {"resolving", "draining", "background", "failed_resolve"}
        /\ \A i \in SceneIndices : engineCalls[i] = 0
        /\ chunks = << >> /\ chunkFiles = {}
        /\ stitchCalls = 0 /\ ~finalOutput
        /\ exitCode \in {NotExited, 1}
        /\ pc = "failed_resolve" <=> exitCode = 1
        /\ exitCode = 1 => ~workspace

C4_Witness ==
    /\ pc = "failed_resolve"
    /\ exitCode = 1
    /\ ~workspace
    /\ \E u \in HttpSources : task[u] = [st |-> "failed", attempt |-> 3]
    /\ \E u \in Sources : cache[u] # NoPath

\* C5: a job whose timeline is missing, no list or empty, or one of whose
\* scenes declares no layer (no 'layers' key, or an empty list), is rejected
\* by validation: the run never gets past it, no workspace is created, no
\* source is dispatched and no scene is rendered.
WellFormed(d) ==
    /\ d.timelineKind = "list"
    /\ d.timeline # << >>
    /\ \A i \in 1..Len(d.timeline) :
         d.timeline[i].hasLayers /\ d.timeline[i].layers # << >>

C5_MalformedRejectedByValidation ==
    ~WellFormed(data) =>
        /\ pc \in {"validate", "failed_validation"}
        /\ ~workspace
        /\ \A u \in Sources : dispatched[u] = 0
        /\ \A i \in SceneIndices : engineCalls[i] = 0

\* C6: once rendering has started no download is pending or failed, and
\* every source named by a layer of any scene, and the background track's,
\* has its cache entry; before that no scene has been touched.
C6_RenderAfterFullResolution ==
    /\ RenderingStarted =>
         /\ \A u \in Sources : task[u].st \in {"none", "ok"}
         /\ \A i \in 1..NumScenes : \A j \in 1..Len(Timeline[i].layers) :
              Timeline[i].layers[j].source # NoSource =>
                  cache[Timeline[i].layers[j].source] =
                      PathOf(Timeline[i].layers[j].source)
         /\ data.background_track # NoTrack =>
              cache[data.background_track] = PathOf(data.background_track)
    /\ ~RenderingStarted =>
         /\ durations = << >>
         /\ \A i \in SceneIndices : engineCalls[i] = 0

C6_Witness ==
    /\ pc = "engine"
    /\ scene = 1
    /\ Len(Timeline[1].layers) = 1
    /\ Timeline[1].layers[1].source = "http://b"
    /\ LayersWithSource(2, "http://a") # {}
    /\ data.background_track = "local.png"
    /\ \A u \in Sources : cache[u] = PathOf(u)

\* C7: when a scene's render fails, the engine was invoked exactly once for
\* that scene, no later scene was rendered, the concatenation was never
\* invoked, no final output exists and the exit status is non-zero.
C7_FirstRenderFailureAborts ==
    pc \in {"failed_render", "crashed_render"} =>
        /\ engineCalls[scene] = 1
        /\ \A i \in SceneIndices : i > scene => engineCalls[i] = 0
        /\ stitchCalls = 0
        /\ ~finalOutput
        /\ exitCode = 1

\* C8 as stated: a rendered scene without explicit duration and without a
\* main audio layer, but with an audio layer, has the first audio layer
\* probed and takes its duration from that probe.
HasMainAudioLayer(layers) ==
    \E j \in 1..Len(layers) : layers[j].type = "audio" /\ layers[j].role = "main"

HasAudioLayer(layers) ==
    \E j \in 1..Len(layers) : layers[j].type = "audio"

FirstAudioLayer(layers) ==
    CHOOSE j \in 1..Len(layers) :
        /\ layers[j].type = "audio"
        /\ \A k \in 1..(j - 1) : layers[k].type # "audio"

NoExplicitDuration(s) == s.duration = NoDuration \/ s.duration[1] = 0

C8_FirstAudioFallback ==
    \A k \in 1..Len(durations) :
        ( /\ NoExplicitDuration(Timeline[k])
          /\ ~HasMainAudioLayer(Timeline[k].layers)
          /\ HasAudioLayer(Timeline[k].layers) ) =>
            /\ Len(probes[k]) = 1
            /\ probes[k][1].layer = FirstAudioLayer(Timeline[k].layers)
            /\ probes[k][1].outcome.ok => durations[k] = probes[k][1].outcome.seconds

\* C8 amended: a rendered scene without explicit duration and without an
\* audio layer of role "main" gets the default duration and no layer of it
\* is probed, whether or not it has audio layers of other roles.
C8_DefaultWithoutMainAudio ==
    \A k \in 1..Len(durations) :
        ( /\ NoExplicitDuration(Timeline[k])
          /\ ~HasMainAudioLayer(Timeline[k].layers) ) =>
            /\ probes[k] = << >>
            /\ durations[k] = DefaultDuration

C8_Witness ==
    /\ pc = "done"
    /\ \E k \in 1..Len(durations) :
         /\ NoExplicitDuration(Timeline[k])
         /\ ~HasMainAudioLayer(Timeline[k].layers)
         /\ HasAudioLayer(Timeline[k].layers)
         /\ durations[k] = DefaultDuration
         /\ probes[k] = << >>

\* C9: the duration computed for every rendered scene of a validated job is
\* strictly positive.
C9_DurationPositive ==
    \A k \in 1..Len(durations) : durations[k] > 0

\* C10: a failed duration probe does not abort the run: the scene gets the
\* default duration and goes on to its engine invocation; the render loop
\* ends early only on a scene without layers or after an engine invocation.
ProbeFailedFor(k) == probes[k] # << >> /\ ~probes[k][1].outcome.ok

C10_ProbeFailureNotFatal ==
    /\ \A k \in 1..Len(probes) :
         ProbeFailedFor(k) =>
            /\ durations[k] = DefaultDuration
            /\ \/ pc = "engine" /\ scene = k - 1 /\ exitCode = NotExited
               \/ engineCalls[k - 1] = 1
    /\ pc = "crashed_render" => Timeline[scene + 1].layers = << >>
    /\ pc = "failed_render" => engineCalls[scene] = 1

C10_Witness ==
    /\ pc = "done"
    /\ exitCode = 0
    /\ NumScenes = 2
    /\ ProbeFailedFor(1)
    /\ durations[1] = DefaultDuration
    /\ engineCalls[0] = 1 /\ engineCalls[1] = 1
    /\ stitchCalls = 1

\* C11: when the run has ended, on any path, the workspace with its
\* downloads and chunks is gone and no intermediate file of the run is left;
\* after a successful run the final output is the only file left behind.
C11_OnlyFinalOutputRemains ==
    exitCode # NotExited =>
        /\ ~workspace
        /\ \A u \in HttpSources : dlFile[u] = "absent"
        /\ chunkFiles = {}
        /\ ~listFile
        /\ exitCode = 0 => finalOutput

LayersOfType(layers, types) == { j \in 1..Len(layers) : layers[j].type \in types }
AudioLayers(layers) == LayersOfType(layers, {"audio"})
VisualLayers(layers) == LayersOfType(layers, {"video", "image", "text"})
MainLayers(layers) ==
    { j \in AudioLayers(layers) : layers[j].role = "main" }

\* The members of a set of numbers in increasing order.
RECURSIVE Ascending(_)
Ascending(S) ==
    IF S = {} THEN << >>
    ELSE LET m == CHOOSE x \in S : \A y \in S : x <= y
         IN << m >> \o Ascending(S \ {m})

Producers(nodes, label) ==
    { p \in 1..Len(nodes) : \E o \in 1..Len(nodes[p].outputs) :
                                nodes[p].outputs[o] = label }

\* C12: in every compiled engine job the canvas length, the trim of every
\* video/image chain and the trim end of every audio chain are the scene's
\* resolved duration, and the final audio node is a mix whose first input is
\* an audio chain trimmed to that duration, or a silent source of it.
C12_OneDurationEverywhere ==
    \A k \in 1..Len(cmds) :
        LET cmd == cmds[k]
            d == durations[k]
            last == cmd.nodes[Len(cmd.nodes)]
        IN /\ cmd.canvas = d
           /\ \A p \in 1..Len(cmd.nodes) :
                cmd.nodes[p].op \in {"scale,trim", "apad,atrim"} =>
                    cmd.nodes[p].dur = << d >>
           /\ last.outputs = << cmd.mapA >>
           /\ \/ /\ last.op = "amix"
                 /\ last.inputs # << >>
                 /\ \E p \in Producers(cmd.nodes, last.inputs[1]) :
                       cmd.nodes[p].op = "apad,atrim" /\ cmd.nodes[p].dur = << d >>
              \/ /\ last.op = "anullsrc"
                 /\ last.dur = << d >>

C12_Witness ==
    /\ Len(cmds) = 1
    /\ durations[1] = 3
    /\ Timeline[1].layers # << >>
    /\ AudioLayers(Timeline[1].layers) = {}
    /\ \E j \in 1..Len(Timeline[1].layers) : Timeline[1].layers[j].type = "video"

\* C14: when several audio layers of a scene have role "main" and the scene
\* has no explicit duration, exactly one layer is probed, the first main
\* layer in layer order, and a successful probe is the scene's duration.
C14_FirstMainWins ==
    \A k \in 1..Len(probes) :
        ( /\ NoExplicitDuration(Timeline[k])
          /\ Cardinality(MainLayers(Timeline[k].layers)) >= 2 ) =>
            /\ Len(probes[k]) = 1
            /\ \A m \in MainLayers(Timeline[k].layers) : probes[k][1].layer <= m
            /\ probes[k][1].layer \in MainLayers(Timeline[k].layers)
            /\ probes[k][1].outcome.ok =>
                  durations[k] = probes[k][1].outcome.seconds

C14_Witness ==
    /\ pc = "done"
    /\ NoExplicitDuration(Timeline[1])
    /\ \E i, j \in MainLayers(Timeline[1].layers) :
          /\ i < j
          /\ Timeline[1].layers[i].source # Timeline[1].layers[j].source
          /\ probes[1] = << [layer |-> i, outcome |-> [ok |-> TRUE, seconds |-> 8]] >>
    /\ durations[1] = 8

\* C15: input 0 of every engine invocation is the canvas; inputs 1..k are
\* the distinct resolved paths of the scene's layers in order of first
\* appearance; the stream a layer's node reads is the input at which its
\* resolved path stands (so equal paths share an index, different paths do
\* not).
SourcedLayers(layers) == { j \in 1..Len(layers) : layers[j].source # NoSource }

FirstUse(layers, path) ==
    CHOOSE j \in SourcedLayers(layers) :
        /\ cache[layers[j].source] = path
        /\ \A i \in SourcedLayers(layers) :
              cache[layers[i].source] = path => j <= i

C15_InputIndices ==
    \A k \in 1..Len(cmds) :
        LET cmd == cmds[k]
            layers == Timeline[k].layers
            paths == { cache[layers[j].source] : j \in SourcedLayers(layers) }
        IN /\ cmd.inputs[1] = CanvasInput
           /\ Len(cmd.inputs) = 1 + Cardinality(paths)
           /\ { cmd.inputs[p] : p \in 2..Len(cmd.inputs) } = paths
           /\ \A p, q \in 2..Len(cmd.inputs) :
                p < q => FirstUse(layers, cmd.inputs[p]) < FirstUse(layers, cmd.inputs[q])
           /\ \A n \in 1..Len(cmd.nodes) : \A i \in 1..Len(cmd.nodes[n].inputs) :
                LET label == cmd.nodes[n].inputs[i] IN
                IsInputStream(label) =>
                    /\ label[2] + 1 \in 1..Len(cmd.inputs)
                    /\ cmd.inputs[label[2] + 1] =
                         IF cmd.nodes[n].layer = 0 THEN CanvasInput
                         ELSE cache[layers[cmd.nodes[n].layer].source]

C15_Witness ==
    /\ Len(cmds) = 1
    /\ Len(Timeline[1].layers) = 3
    /\ Timeline[1].layers[1].source = "local.png"
    /\ Timeline[1].layers[2].source = "http://a"
    /\ Timeline[1].layers[3].source = "http://a"
    /\ Timeline[1].layers[2].type # Timeline[1].layers[3].type
    /\ cmds[1].inputs = << CanvasInput, "local.png", DlPath("http://a") >>

\* C16: walking from the video label mapped to the output back through the
\* base input of each compositing node passes the nodes of the visual layers
\* in reverse declaration order and ends at the canvas: each visual layer is
\* composited onto a frame holding all earlier ones, and the mapped label is
\* the last visual layer's output (the canvas label when there is none).
RECURSIVE BaseChain(_, _)
BaseChain(nodes, label) ==
    IF Producers(nodes, label) = {} THEN << -1 >>
    ELSE LET n == nodes[CHOOSE p \in Producers(nodes, label) : TRUE] IN
         IF n.op = "null" THEN << >>
         ELSE IF n.op \notin {"overlay", "drawtext"} THEN << -1 >>
         ELSE Append(BaseChain(nodes, n.inputs[1]), n.layer)

C16_StackingFollowsLayerOrder ==
    \A k \in 1..Len(cmds) :
        /\ BaseChain(cmds[k].nodes, cmds[k].mapV)
              = Ascending(VisualLayers(Timeline[k].layers))
        /\ VisualLayers(Timeline[k].layers) = {} => cmds[k].mapV = << "v", 0 >>

C16_Witness ==
    /\ Len(cmds) = 1
    /\ Len(Timeline[1].layers) = 3
    /\ Timeline[1].layers[1].type = "video"
    /\ Timeline[1].layers[2].type = "text"
    /\ Timeline[1].layers[3].type = "image"
    /\ BaseChain(cmds[1].nodes, cmds[1].mapV) = << 1, 2, 3 >>

\* C17: exactly one node produces the final audio label, the last one: with
\* m >= 1 audio layers it is a mix declaring m inputs, its inputs being the
\* outputs of the m audio layers' chains in layer order; with no audio layer
\* it is a silent source without inputs.
C17_FinalAudioNode ==
    \A k \in 1..Len(cmds) :
        LET nodes == cmds[k].nodes
            audio == Ascending(AudioLayers(Timeline[k].layers))
            last == nodes[Len(nodes)]
        IN /\ Producers(nodes, cmds[k].mapA) = {Len(nodes)}
           /\ IF audio # << >>
                THEN /\ last.op = "amix"
                     /\ last.n = Len(audio)
                     /\ Len(last.inputs) = Len(audio)
                     /\ \A j \in 1..Len(audio) :
                          \E p \in Producers(nodes, last.inputs[j]) :
                             /\ nodes[p].layer = audio[j]
                             /\ nodes[p].op = "apad,atrim"
                ELSE /\ last.op = "anullsrc"
                     /\ last.inputs = << >>

C17_Witness ==
    /\ Len(cmds) = 1
    /\ Len(Timeline[1].layers) = 3
    /\ AudioLayers(Timeline[1].layers) = {1, 3}
    /\ Timeline[1].layers[1].source # Timeline[1].layers[3].source
    /\ cmds[1].nodes[Len(cmds[1].nodes)].op = "amix"
    /\ cmds[1].nodes[Len(cmds[1].nodes)].n = 2

\* C20: in every compiled graph each label is produced by exactly one node,
\* each label a node consumes (engine input streams aside) is produced by an
\* earlier node, each produced label is consumed exactly once, by a later
\* node or by an output mapping, and both mapped labels are produced.
Uses(cmd, label) ==
    Cardinality({ << n, i >> \in (1..Len(cmd.nodes)) \X (1..(2 * MaxSceneLayers)) :
                    /\ i <= Len(cmd.nodes[n].inputs)
                    /\ cmd.nodes[n].inputs[i] = label })
    + (IF cmd.mapV = label THEN 1 ELSE 0)
    + (IF cmd.mapA = label THEN 1 ELSE 0)

C20_LabelsWellFormed ==
    \A k \in 1..Len(cmds) :
        LET cmd == cmds[k] IN
        /\ \A n \in 1..Len(cmd.nodes) :
             /\ \A o \in 1..Len(cmd.nodes[n].outputs) :
                  /\ Producers(cmd.nodes, cmd.nodes[n].outputs[o]) = {n}
                  /\ Uses(cmd, cmd.nodes[n].outputs[o]) = 1
             /\ \A i \in 1..Len(cmd.nodes[n].inputs) :
                  ~IsInputStream(cmd.nodes[n].inputs[i]) =>
                      \E p \in Producers(cmd.nodes, cmd.nodes[n].inputs[i]) : p < n
        /\ Producers(cmd.nodes, cmd.mapV) # {}
        /\ Producers(cmd.nodes, cmd.mapA) # {}

C20_Witness ==
    /\ Len(cmds) = 1
    /\ Len(Timeline[1].layers) = 3
    /\ Timeline[1].layers[1].type = "text"
    /\ Timeline[1].layers[2].type = "text"
    /\ Timeline[1].layers[3].type = "audio"
    /\ Len(cmds[1].nodes) = 5

\* C18: every step that changes the cache is a step of the orchestrating
\* thread taken before any scene is rendered: it leaves every task as it is,
\* it sets exactly one entry, that of the source whose finished task the
\* orchestrator is consuming (the next future of resolve_all, or the
\* background download of run), and no step changes the cache once rendering
\* has started.
ConsumedSource ==
    IF pc = "resolving" /\ next <= Len(order) THEN order[next]
    ELSE IF pc = "background" THEN data.background_track
    ELSE NoSource

C18_CacheWrittenByOrchestrator ==
    [][ cache' # cache =>
          /\ ~RenderingStarted
          /\ task' = task
          /\ ConsumedSource \in Sources
          /\ task[ConsumedSource].st = "ok"
          /\ cache[ConsumedSource] = NoPath
          /\ cache'[ConsumedSource] # NoPath
          /\ \A u \in Sources \ {ConsumedSource} : cache'[u] = cache[u] ]_vars

C18_Witness ==
    /\ pc = "resolving"
    /\ \E u, v \in Sources :
          /\ cache[u] # NoPath
          /\ task[v].st = "running"
          /\ cache[v] = NoPath

\* C19: across repeated resolve_all calls on one AssetManager, a path is in
\* the cache for a remote URL only if the file at that path is the result of
\* a download that ran to completion.
C19_OnlyCompleteDownloadsResolved ==
    \A u \in HttpSources : cache[u] # NoPath => dlFile[u] = "complete"

====
